---- MODULE Spec2Model ----
(***************************************************************************)
(* Data access layer of the atlas explorer (src/src/hooks/useData.ts):     *)
(* the process-wide JSON cache, fetchJson, and the useAsync subscription   *)
(* hook, run on the browser's event loop (macrotasks interleave, promise   *)
(* reactions drain before the next macrotask).                             *)
(***************************************************************************)
EXTENDS Integers, Sequences, FiniteSets, TLC

\* ---------------------------------------------------------------- bounds
\* Total number of loader invocations (fetchJson calls) in one run.
MaxCalls == 3

\* Dataset keys (the `path` argument of fetchJson) and hook instances.
Keys == {"K1", "K2"}
Views == {"v1", "v2"}

\* HTTP statuses the static server answers with.
Statuses == {200, 404}

\* Longest cached array a page is given.
MaxLen == 3

\* Longest text typed into a search box.
MaxQuery == 2

\* Highest layer that has a cell-type dataset (layers are 0..17).
MaxLayer == 17

\* Longest suggestion list of a search page: slice(0, 10).
MaxSuggestions == 10

\* Longest top-dependencies table: rows.slice(0, 20).
MaxRows == 20

\* ---------------------------------------------------------------- values
\* null of `data`
Null == [key |-> "null", ref |-> 0]
\* null of `error`
NoError == [kind |-> "none", key |-> "none", status |-> 0]

\* The object res.json() yields for a request of key k: the body of the static
\* file k (its content is determined by k), a fresh object per parse (ref: the
\* n-th object parsed for k).
ParsedValue(k, n) == [key |-> k, ref |-> n]

\* new Error(`Failed to load ${path}: ${res.status}`).message
StatusError(k, s) == [kind |-> "status", key |-> k, status |-> s]
\* fetch() rejects with a TypeError: its message names neither key nor status
NetworkError == [kind |-> "network", key |-> "none", status |-> 0]
\* res.json() rejects with a SyntaxError
ParseError == [kind |-> "parse", key |-> "none", status |-> 0]

VARIABLES
    cache,      \* const cache = new Map<string, unknown>()
    calls,      \* fetchJson invocations suspended at an await (fetch or res.json)
    mq,         \* microtask queue: settled invocations whose then/catch reaction is queued
    alive,      \* per hook instance: "unborn", "mounted", "unmounted"
    dep,        \* per hook instance: the current dependency key
    gen,        \* per hook instance: number of effect runs so far
    data,       \* useState data
    loading,    \* useState loading
    error,      \* useState error
    mountedRef, \* useRef mounted.current
    ncalls,     \* history: fetchJson invocations so far
    gets,       \* history: HTTP GETs issued per key
    sets,       \* history: cache.set calls per key
    stored,     \* history: for each cache.set, the key and the response status
    resolved,   \* history: per key, the values fetchJson calls resolved to
    failed,     \* history: keys for which a fetchJson call has rejected
    refetched,  \* history: keys fetched again after such a rejection
    uncaught,   \* history: a rejection no handler consumed
    writes,     \* history: then/catch bodies that called the setters, per view
    optional,   \* the hook instances that are useLayerCellTypes (fixed per run)
    outside,    \* the dependency keys that stand for a layer outside 0..17 (fixed per run)
    budget,     \* the number of loader invocations a run explores (fixed per run)
    page,             \* the page whose derived computations run ("none" while only data loads)
    features,         \* LayerExplorer: elements of the cached features array
    geneSearch,       \* LayerExplorer: useState geneSearch
    filteredFeatures, \* LayerExplorer: useMemo filteredFeatures
    modules,          \* ModuleExplorer: elements of the cached modules array
    layerFilter,      \* ModuleExplorer: useState layerFilter
    sortBy,           \* ModuleExplorer: useState sortBy
    filtered,         \* ModuleExplorer: useMemo filtered
    genes,            \* FeaturePage: elements of the cached fullAnnotations.genes
    names,            \* TopGenesChart: the y axis handed to the plot
    annotations,      \* FeaturePage: elements of the cached fullAnnotations.anns
    grouped,          \* AnnotationsSection: useMemo grouped
    request,          \* the latest per-layer hook call: kind, layer, key it loads
    previous,         \* the per-layer hook call before it
    route,               \* FeaturePage: layer and idx parsed from the URL
    causalData,          \* FeaturePage: useCausalPatching data
    pertData,            \* FeaturePage: usePerturbationResponse data
    causalFeature,       \* FeaturePage: useMemo causalFeature
    matchingPertTargets, \* FeaturePage: useMemo matchingPertTargets
    searchKind,          \* which search page runs: "gene" (GeneSearch) or "ontology"
    index,               \* search page: the keys of the loaded index
    query,               \* search page: useState query
    selected,            \* search page: useState selectedGene / selectedTerm
    suggestions,         \* search page: useMemo suggestions
    event,               \* history: the last input event of the search page
    graphData,           \* CrossLayerFlow: useCrossLayerGraph data
    selectedPair,        \* CrossLayerFlow: useState selectedPair
    topDeps,             \* CrossLayerFlow: useMemo topDeps
    menuOpen,            \* App: useState menuOpen
    pathname,            \* App: useLocation().pathname
    effectPending,       \* App: the route effect is scheduled and has not run yet
    wasOpen,             \* history: menuOpen when the pathname last changed
    toggled              \* history: the menu was toggled since the pathname last changed

vars == <<cache, calls, mq, alive, dep, gen, data, loading, error, mountedRef,
          ncalls, gets, sets, stored, resolved, failed, refetched, uncaught, writes,
          optional, outside, budget, page, features, geneSearch, filteredFeatures, modules,
          layerFilter, sortBy, filtered, genes, names, annotations, grouped,
          request, previous,
          route, causalData, pertData, causalFeature, matchingPertTargets,
          searchKind, index, query, selected, suggestions, event,
          graphData, selectedPair, topDeps,
          menuOpen, pathname, effectPending, wasOpen, toggled>>

\* What the data access layer never writes.
otherVars == <<optional, outside, budget, page, features, geneSearch, filteredFeatures, modules,
               layerFilter, sortBy, filtered, genes, names, annotations, grouped,
               request, previous,
               route, causalData, pertData, causalFeature, matchingPertTargets,
               searchKind, index, query, selected, suggestions, event,
               graphData, selectedPair, topDeps,
               menuOpen, pathname, effectPending, wasOpen, toggled>>

\* What the pages' derived computations never write.
dataVars == <<cache, calls, mq, alive, dep, gen, data, loading, error, mountedRef,
              ncalls, gets, sets, stored, resolved, failed, refetched, uncaught,
              writes, optional, outside, budget>>
layerExplorerVars == <<features, geneSearch, filteredFeatures>>
moduleExplorerVars == <<modules, layerFilter, sortBy, filtered>>
featurePageVars == <<genes, names, annotations, grouped>>
pageVars == <<page, layerExplorerVars, moduleExplorerVars, featurePageVars>>
keyVars == <<request, previous>>
joinVars == <<route, causalData, pertData, causalFeature, matchingPertTargets>>
\* The state of the other components.
searchVars == <<searchKind, index, query, selected, suggestions, event>>
flowVars == <<graphData, selectedPair, topDeps>>
menuVars == <<menuOpen, pathname, effectPending, wasOpen, toggled>>
laterVars == <<joinVars, searchVars, flowVars, menuVars>>
notJoinVars == <<dataVars, pageVars, keyVars, searchVars, flowVars, menuVars>>
notSearchVars == <<dataVars, pageVars, keyVars, joinVars, flowVars, menuVars>>
notFlowVars == <<dataVars, pageVars, keyVars, joinVars, searchVars, menuVars>>
notMenuVars == <<dataVars, pageVars, keyVars, joinVars, searchVars, flowVars>>

viewVars == <<alive, dep, gen, data, loading, error, mountedRef, writes>>

\* ---------------------------------------------------------------- cache
\* Variant: the presence check never succeeds.
CacheHasNever(k) == FALSE

\* cache.has(key)
CacheHas(k) == k \in DOMAIN cache

\* Variant: the lookup uses the URL (BASE + path), which is no key of the map.
CacheGetByUrl(k) == Null

\* cache.get(key)
CacheGet(k) == cache[k]

\* Variant: every value is stored under one fixed key.
CacheSetOneSlot(k, v) == [x \in DOMAIN cache \cup {"K1"} |-> IF x = "K1" THEN v ELSE cache[x]]

\* cache.set(key, data)
CacheSet(k, v) == [x \in DOMAIN cache \cup {k} |-> IF x = k THEN v ELSE cache[x]]

\* Variant: the status is not checked.
ResOkAlways(s) == TRUE

\* res.ok
ResOk(s) == s >= 200 /\ s <= 299

\* ---------------------------------------------------------------- fetchJson
\* The invocation fetchJson(path) made by effect run g of view v, up to its
\* first suspension: a cache hit returns a fulfilled promise, a miss issues
\* fetch(BASE + path).
NewCall(v, g, k) ==
    IF CacheHas(k)
    THEN [view |-> v, gen |-> g, key |-> k, hit |-> TRUE, phase |-> "resolved",
          status |-> 0, val |-> CacheGet(k), err |-> NoError]
    ELSE [view |-> v, gen |-> g, key |-> k, hit |-> FALSE, phase |-> "fetching",
          status |-> 0, val |-> Null, err |-> NoError]

fetchJson(v, g, k) ==
    /\ ncalls < budget
    /\ ncalls' = ncalls + 1
    /\ IF CacheHas(k)
       THEN /\ mq' = Append(mq, NewCall(v, g, k))
            /\ resolved' = [resolved EXCEPT ![k] = @ \cup {CacheGet(k)}]
            /\ UNCHANGED <<calls, gets, refetched>>
       ELSE /\ calls' = calls \cup {NewCall(v, g, k)}
            /\ gets' = [gets EXCEPT ![k] = @ + 1]
            /\ refetched' = IF k \in failed THEN refetched \cup {k} ELSE refetched
            /\ UNCHANGED <<mq, resolved>>
    /\ UNCHANGED <<cache, sets, stored, failed, uncaught>>

\* ---------------------------------------------------------------- useAsync
OutOfRangeNever(v, k) == FALSE
\* useLayerCellTypes: if (layer < 0 || layer > 17)
OutOfRange(v, k) == v \in optional /\ k \in outside

\* useLayerCellTypes: `return null` before any fetchJson call; the async loader
\* has then resolved with null and its reaction is queued.
ReturnNull(v, g, k) ==
    /\ ncalls < budget
    /\ ncalls' = ncalls + 1
    /\ mq' = Append(mq, [view |-> v, gen |-> g, key |-> k, hit |-> FALSE,
                         phase |-> "resolved", status |-> 0, val |-> Null,
                         err |-> NoError])
    /\ UNCHANGED <<cache, calls, gets, sets, stored, resolved, failed, refetched,
                   uncaught>>

\* The effect body: mounted.current = true; setLoading(true); setError(null);
\* loader().then(...).catch(...)
useAsyncEffect(v, k) ==
    /\ mountedRef' = [mountedRef EXCEPT ![v] = TRUE]
    /\ loading' = [loading EXCEPT ![v] = TRUE]
    /\ error' = [error EXCEPT ![v] = NoError]
    /\ dep' = [dep EXCEPT ![v] = k]
    /\ gen' = [gen EXCEPT ![v] = @ + 1]
    /\ IF OutOfRange(v, k)
       THEN ReturnNull(v, gen[v] + 1, k)
       ELSE fetchJson(v, gen[v] + 1, k)

\* First render of a hook instance and its first effect run.
Mount(v, k) ==
    /\ UNCHANGED otherVars
    /\ mq = <<>>
    /\ alive[v] = "unborn"
    /\ alive' = [alive EXCEPT ![v] = "mounted"]
    /\ useAsyncEffect(v, k)
    /\ UNCHANGED <<data, writes>>

\* The dependency changes: the previous effect's cleanup runs
\* (mounted.current = false), then the effect runs again.
SetDep(v, k) ==
    /\ UNCHANGED otherVars
    /\ mq = <<>>
    /\ alive[v] = "mounted"
    /\ k # dep[v]
    /\ useAsyncEffect(v, k)
    /\ UNCHANGED <<alive, data, writes>>

\* Variant: the cleanup aborts the requests of its hook instance.
InFlightAfterAbort(v) == {c \in calls : c.view # v}

\* The suspended invocations after the cleanup of view v ran:
\* `return () => { mounted.current = false }` aborts nothing.
InFlightAfterCleanup(v) == calls

\* The consuming view unmounts: the cleanup runs, no effect follows.
Unmount(v) ==
    /\ UNCHANGED otherVars
    /\ mq = <<>>
    /\ alive[v] = "mounted"
    /\ alive' = [alive EXCEPT ![v] = "unmounted"]
    /\ mountedRef' = [mountedRef EXCEPT ![v] = FALSE]
    /\ calls' = InFlightAfterCleanup(v)
    /\ UNCHANGED <<cache, mq, dep, gen, data, loading, error, ncalls,
                   gets, sets, stored, resolved, failed, refetched, uncaught, writes>>

\* ---------------------------------------------------------------- network
\* Variant: useLayerCellTypes without its try/catch.
LoaderResultRethrow(r) == r

\* How the loader's promise settles when its fetchJson call settles as r:
\* useLayerCellTypes wraps the call in try { ... } catch { return null };
\* every other hook returns the fetchJson promise itself.
LoaderResult(r) ==
    IF r.view \in optional /\ r.phase = "rejected"
    THEN [r EXCEPT !.phase = "resolved", !.val = Null]
    ELSE r

\* A suspended invocation c settles as r: its promise reaction is queued.
Settle(c, r) ==
    /\ calls' = calls \ {c}
    /\ mq' = Append(mq, LoaderResult(r))
    /\ failed' = IF r.phase = "rejected" THEN failed \cup {r.key} ELSE failed

\* The response of request c arrives with status s: `await fetch` resumes,
\* `if (!res.ok) throw`, else res.json() starts.
Respond(c, s) ==
    /\ UNCHANGED otherVars
    /\ mq = <<>>
    /\ c \in calls
    /\ c.phase = "fetching"
    /\ IF ResOk(s)
       THEN /\ calls' = (calls \ {c}) \cup {[c EXCEPT !.phase = "parsing", !.status = s]}
            /\ UNCHANGED <<mq, failed>>
       ELSE Settle(c, [c EXCEPT !.phase = "rejected", !.status = s,
                                !.err = StatusError(c.key, s)])
    /\ UNCHANGED <<cache, ncalls, gets, sets, stored, resolved, refetched, uncaught>>
    /\ UNCHANGED viewVars

\* The request cannot complete: fetch() rejects.
NetworkFail(c) ==
    /\ UNCHANGED otherVars
    /\ mq = <<>>
    /\ c \in calls
    /\ c.phase = "fetching"
    /\ Settle(c, [c EXCEPT !.phase = "rejected", !.err = NetworkError])
    /\ UNCHANGED <<cache, ncalls, gets, sets, stored, resolved, refetched, uncaught>>
    /\ UNCHANGED viewVars

\* res.json() resolves: cache.set(key, data); return data.
ParseOk(c) ==
    /\ UNCHANGED otherVars
    /\ mq = <<>>
    /\ c \in calls
    /\ c.phase = "parsing"
    /\ LET d == ParsedValue(c.key, sets[c.key] + 1) IN
       /\ cache' = CacheSet(c.key, d)
       /\ Settle(c, [c EXCEPT !.phase = "resolved", !.val = d])
       /\ resolved' = [resolved EXCEPT ![c.key] = @ \cup {d}]
    /\ sets' = [sets EXCEPT ![c.key] = @ + 1]
    /\ stored' = stored \cup {[key |-> c.key, status |-> c.status]}
    /\ UNCHANGED <<ncalls, gets, refetched, uncaught>>
    /\ UNCHANGED viewVars

\* res.json() rejects: the body is not JSON.
ParseFail(c) ==
    /\ UNCHANGED otherVars
    /\ mq = <<>>
    /\ c \in calls
    /\ c.phase = "parsing"
    /\ Settle(c, [c EXCEPT !.phase = "rejected", !.err = ParseError])
    /\ UNCHANGED <<cache, ncalls, gets, sets, stored, resolved, refetched, uncaught>>
    /\ UNCHANGED viewVars

\* ---------------------------------------------------------------- reactions
\* Variant: the then/catch bodies do not test mounted.current.
MountedGuardMissing(v) == TRUE

\* if (mounted.current) in the then/catch bodies
MountedGuard(v) == mountedRef[v]

\* Variant: the hook state is module-level, shared by all instances.
TargetsShared(v) == Views

\* The hook instances whose state the reaction of a call of view v writes.
Targets(v) == {v}

\* Variant: the then body forgets setLoading(false).
ThenCallbackKeepsLoading(c) ==
    IF mountedRef[c.view]
    THEN /\ data' = [data EXCEPT ![c.view] = c.val]
         /\ writes' = [writes EXCEPT ![c.view] = @ + 1]
         /\ UNCHANGED <<loading, error>>
    ELSE UNCHANGED <<data, loading, error, writes>>

\* .then(d => { if (mounted.current) { setData(d); setLoading(false) } })
ThenCallback(c) ==
    IF MountedGuard(c.view)
    THEN /\ data' = [w \in Views |-> IF w \in Targets(c.view) THEN c.val ELSE data[w]]
         /\ loading' = [w \in Views |-> IF w \in Targets(c.view) THEN FALSE ELSE loading[w]]
         /\ writes' = [writes EXCEPT ![c.view] = @ + 1]
         /\ UNCHANGED error
    ELSE UNCHANGED <<data, loading, error, writes>>

\* Variant: the catch body forgets setLoading(false).
CatchCallbackKeepsLoading(c) ==
    IF mountedRef[c.view]
    THEN /\ error' = [error EXCEPT ![c.view] = c.err]
         /\ writes' = [writes EXCEPT ![c.view] = @ + 1]
         /\ UNCHANGED <<data, loading>>
    ELSE UNCHANGED <<data, loading, error, writes>>

\* .catch(e => { if (mounted.current) { setError(e.message); setLoading(false) } })
CatchCallback(c) ==
    IF MountedGuard(c.view)
    THEN /\ error' = [w \in Views |-> IF w \in Targets(c.view) THEN c.err ELSE error[w]]
         /\ loading' = [w \in Views |-> IF w \in Targets(c.view) THEN FALSE ELSE loading[w]]
         /\ writes' = [writes EXCEPT ![c.view] = @ + 1]
         /\ UNCHANGED data
    ELSE UNCHANGED <<data, loading, error, writes>>

\* loader().then(...).catch(...): the chain ends in a rejection handler.
HasCatch(c) == TRUE

\* The next promise reaction job runs.
Deliver ==
    /\ UNCHANGED otherVars
    /\ mq # <<>>
    /\ IF Head(mq).phase = "resolved"
       THEN ThenCallback(Head(mq)) /\ UNCHANGED uncaught
       ELSE IF HasCatch(Head(mq))
            THEN CatchCallback(Head(mq)) /\ UNCHANGED uncaught
            ELSE uncaught' = TRUE /\ UNCHANGED <<data, loading, error, writes>>
    /\ mq' = Tail(mq)
    /\ UNCHANGED <<cache, calls, alive, dep, gen, mountedRef,
                   ncalls, gets, sets, stored, resolved, failed, refetched>>

\* ---------------------------------------------------------------- strings
\* A string is the sequence of its characters.
Blank == " "

\* String.prototype.toLowerCase
toLowerCaseChar(ch) ==
    CASE ch = "T" -> "t"
      [] ch = "P" -> "p"
      [] ch = "M" -> "m"
      [] OTHER -> ch
toLowerCase(s) == [i \in 1..Len(s) |-> toLowerCaseChar(s[i])]

\* String.prototype.trim
trim(s) ==
    LET solid == {i \in 1..Len(s) : s[i] # Blank}
    IN  IF solid = {} THEN <<>>
        ELSE SubSeq(s, CHOOSE i \in solid : \A j \in solid : i <= j,
                       CHOOSE i \in solid : \A j \in solid : j <= i)

\* String.prototype.includes
includes(s, q) == \E i \in 0..(Len(s) - Len(q)) : SubSeq(s, i + 1, i + Len(q)) = q

\* ---------------------------------------------------------------- arrays
\* An array value is a reference: the identity of the array object ("cached":
\* the object stored in the cache, "fresh": one allocated by the computation)
\* and the elements it holds.
Array(id, elems) == [id |-> id, elems |-> elems]

SpreadAlias(a) == a
\* [...a] and a.slice(): a new array with the same elements
Spread(a) == Array("fresh", a.elems)

\* Callbacks are passed as functions over the element values.
\* Array.prototype.filter: a new array
filter(a, keep) == Array("fresh", SelectSeq(a.elems, LAMBDA x : keep[x]))

\* Array.prototype.map: a new array
map(a, f) == Array("fresh", [i \in 1..Len(a.elems) |-> f[a.elems[i]]])

\* Array.prototype.sort: in place, stable; returns the array it was called on
sort(a, cmp) ==
    LET e == a.elems
        n == Len(e)
        rank(i) == 1 + Cardinality({j \in 1..n :
                          \/ cmp[e[j], e[i]] < 0
                          \/ cmp[e[j], e[i]] = 0 /\ j < i})
    IN  Array(a.id, [p \in 1..n |-> e[CHOOSE i \in 1..n : rank(i) = p]])

\* Array.prototype.reverse: in place; returns the array it was called on
reverse(a) ==
    Array(a.id, [i \in 1..Len(a.elems) |-> a.elems[Len(a.elems) + 1 - i]])

\* What the cached array holds once the computation has produced array a:
\* in-place operations on the cached object itself are visible in the cache.
Stored(elems, a) == IF a.id = "cached" THEN a.elems ELSE elems

\* All arrays of at most MaxLen distinct elements of pool.
Arrays(pool) ==
    UNION {{a \in [1..n -> pool] : \A i, j \in 1..n : a[i] = a[j] => i = j} :
           n \in 0..MaxLen}

\* ---------------------------------------------------------------- LayerExplorer
FeaturePool ==
    { [i |-> 1, na |-> 2, tg |-> << [n |-> <<"T", "P">>] >>],
      [i |-> 2, na |-> 2, tg |-> << [n |-> <<"t", "p", "x">>], [n |-> <<"M">>] >>],
      [i |-> 3, na |-> 5, tg |-> << [n |-> <<"M">>] >>],
      [i |-> 4, na |-> 0, tg |-> << >>] }
GeneSearches ==
    { <<>>, <<" ">>, <<"t", "p">>, <<" ", "t", "P", " ">>, <<"M">>,
      <<"p", "x">>, <<"x", "t">> }

hasGeneCaseSensitive(f, q) == \E j \in 1..Len(f.tg) : includes(f.tg[j].n, q)
\* f.tg.some(g => g.n.toLowerCase().includes(q))
hasGene(f, q) == \E j \in 1..Len(f.tg) : includes(toLowerCase(f.tg[j].n), q)

\* (a, b) => b.na - a.na
byAnnotationCount == [a \in FeaturePool, b \in FeaturePool |-> b.na - a.na]

\* The body of the filteredFeatures memo, for a loaded features array.
FilteredFeatures(feats, search) ==
    LET q == trim(toLowerCase(search))
        cached == Array("cached", feats)
        kept == IF q # <<>> THEN filter(cached, [f \in FeaturePool |-> hasGene(f, q)])
                ELSE cached
    IN  sort(Spread(kept), byAnnotationCount)

\* The render that evaluates the memo under gene filter q.
RenderLayerExplorer(q) ==
    LET r == FilteredFeatures(features, q)
    IN  /\ geneSearch' = q
        /\ filteredFeatures' = r.elems
        /\ features' = Stored(features, r)

\* First render of the layer explorer with its features loaded.
ShowLayerExplorer ==
    /\ page = "none"
    /\ page' = "layer"
    /\ RenderLayerExplorer(geneSearch)
    /\ UNCHANGED <<dataVars, laterVars, keyVars, moduleExplorerVars, featurePageVars>>

\* setGeneSearch(q) from the search box, and the render it causes.
SetGeneSearch(q) ==
    /\ page = "layer"
    /\ q # geneSearch
    /\ RenderLayerExplorer(q)
    /\ UNCHANGED <<dataVars, laterVars, keyVars, page, moduleExplorerVars, featurePageVars>>

\* ---------------------------------------------------------------- ModuleExplorer
ModulePool ==
    { [layer |-> 0, id |-> 1, n |-> 3],
      [layer |-> 0, id |-> 0, n |-> 3],
      [layer |-> 1, id |-> 0, n |-> 7] }

\* useState<number | 'all'>
AllLayers == [all |-> TRUE, layer |-> 0]
OneLayer(l) == [all |-> FALSE, layer |-> l]
LayerFilters == {AllLayers} \cup {OneLayer(m.layer) : m \in ModulePool}
SortKeys == {"layer", "size"}

\* (a, b) => b.n - a.n
bySize == [a \in ModulePool, b \in ModulePool |-> b.n - a.n]
byLayerOnly == [a \in ModulePool, b \in ModulePool |-> a.layer - b.layer]
\* (a, b) => a.layer - b.layer || a.id - b.id
byLayerThenId ==
    [a \in ModulePool, b \in ModulePool |->
        IF a.layer - b.layer # 0 THEN a.layer - b.layer ELSE a.id - b.id]

\* The body of the filtered memo, for a loaded modules array.
Filtered(mods, lf, sb) ==
    LET cached == Array("cached", mods)
        ms == IF lf.all THEN cached
              ELSE filter(cached, [m \in ModulePool |-> m.layer = lf.layer])
    IN  IF sb = "size" THEN sort(Spread(ms), bySize)
        ELSE sort(Spread(ms), byLayerThenId)

RenderModuleExplorer(lf, sb) ==
    LET r == Filtered(modules, lf, sb)
    IN  /\ layerFilter' = lf
        /\ sortBy' = sb
        /\ filtered' = r.elems
        /\ modules' = Stored(modules, r)

\* First render of the module explorer with its modules loaded.
ShowModuleExplorer ==
    /\ page = "none"
    /\ page' = "modules"
    /\ RenderModuleExplorer(layerFilter, sortBy)
    /\ UNCHANGED <<dataVars, laterVars, keyVars, layerExplorerVars, featurePageVars>>

\* setLayerFilter(lf) and the render it causes.
SetLayerFilter(lf) ==
    /\ page = "modules"
    /\ lf # layerFilter
    /\ RenderModuleExplorer(lf, sortBy)
    /\ UNCHANGED <<dataVars, laterVars, keyVars, page, layerExplorerVars, featurePageVars>>

\* setSortBy(sb) and the render it causes.
SetSortBy(sb) ==
    /\ page = "modules"
    /\ sb # sortBy
    /\ RenderModuleExplorer(layerFilter, sb)
    /\ UNCHANGED <<dataVars, laterVars, keyVars, page, layerExplorerVars, featurePageVars>>

\* ---------------------------------------------------------------- FeaturePage
GenePool == { [n |-> "g1", a |-> 2], [n |-> "g2", a |-> 5], [n |-> "g3", a |-> 2] }
AnnotationPool ==
    { [o |-> "GO_BP", p |-> 2], [o |-> "GO_BP", p |-> 1], [o |-> "KEGG", p |-> 1] }

\* (a, b) => b.a - a.a
byActivation == [a \in GenePool, b \in GenePool |-> b.a - a.a]
\* (a, b) => a.p - b.p
byPValue == [a \in AnnotationPool, b \in AnnotationPool |-> a.p - b.p]

\* First render of the feature page with its annotations loaded.
ShowFeaturePage ==
    /\ page = "none"
    /\ page' = "feature"
    /\ UNCHANGED <<dataVars, laterVars, keyVars, layerExplorerVars, moduleExplorerVars, featurePageVars>>

\* TopGenesChart({ genes }): sorted copy, mapped names, reversed for the plot.
TopGenesChart ==
    /\ page = "feature"
    /\ LET sorted == sort(Spread(Array("cached", genes)), byActivation)
           ns == map(sorted, [g \in GenePool |-> g.n])
       IN  /\ names' = reverse(ns).elems
           /\ genes' = Stored(Stored(genes, sorted), reverse(ns))
    /\ UNCHANGED <<dataVars, laterVars, keyVars, page, layerExplorerVars, moduleExplorerVars,
                   annotations, grouped>>

\* AnnotationsSection({ annotations }): the grouped memo.  Each group is a new
\* array that the loop pushes the entries of one ontology onto, then sorts.
AnnotationsSection ==
    /\ page = "feature"
    /\ LET onts == {annotations[i].o : i \in 1..Len(annotations)}
           group(o) == sort(Array("fresh", SelectSeq(annotations, LAMBDA a : a.o = o)),
                            byPValue)
       IN  /\ grouped' = [o \in onts |-> group(o).elems]
           /\ annotations' = annotations
    /\ UNCHANGED <<dataVars, laterVars, keyVars, page, layerExplorerVars, moduleExplorerVars,
                   genes, names>>

\* ---------------------------------------------------------------- keys
\* String(layer): the decimal numeral of an integer
DecimalDigits == <<"0", "1", "2", "3", "4", "5", "6", "7", "8", "9">>
RECURSIVE Numeral(_)
Numeral(n) ==
    IF n < 10 THEN <<DecimalDigits[n + 1]>>
    ELSE Numeral(n \div 10) \o <<DecimalDigits[(n % 10) + 1]>>
String(n) == IF n < 0 THEN <<"-">> \o Numeral(0 - n) ELSE Numeral(n)

padStartNone(s, width, ch) == s
\* String.prototype.padStart(width, ch), ch a single character
padStart(s, width, ch) ==
    IF Len(s) >= width THEN s
    ELSE [i \in 1..(width - Len(s)) |-> ch] \o s

\* The literal parts of the template strings.
KeyPrefix == <<"l", "a", "y", "e", "r", "_">>
KeySuffix(kind) ==
    CASE kind = "features" ->
           <<"_", "f", "e", "a", "t", "u", "r", "e", "s", ".", "j", "s", "o", "n">>
      [] kind = "positions" ->
           <<"_", "p", "o", "s", "i", "t", "i", "o", "n", "s", ".", "j", "s", "o", "n">>
      [] kind = "annotations" ->
           <<"_", "a", "n", "n", "o", "t", "a", "t", "i", "o", "n", "s", ".", "j", "s", "o", "n">>
      [] kind = "celltypes" ->
           <<"_", "c", "e", "l", "l", "t", "y", "p", "e", "s", ".", "j", "s", "o", "n">>

\* `layer_${String(layer).padStart(2, '0')}_<kind>.json`
LayerKey(kind, layer) == KeyPrefix \o padStart(String(layer), 2, "0") \o KeySuffix(kind)

\* The layer numbers a route can hand to a hook: the atlas layers and one
\* beyond either end.
Layers == (0 - 1)..(MaxLayer + 1)

NoRequest == [kind |-> "none", layer |-> 0, key |-> <<>>]

\* A hook call whose loader reaches fetchJson with the key of (kind, layer).
Requests(kind, layer) ==
    /\ previous' = request
    /\ request' = [kind |-> kind, layer |-> layer, key |-> LayerKey(kind, layer)]
    /\ UNCHANGED <<dataVars, laterVars, pageVars>>

useLayerFeatures(layer) == Requests("features", layer)
useLayerPositions(layer) == Requests("positions", layer)
useLayerAnnotations(layer) == Requests("annotations", layer)

\* if (layer < 0 || layer > 17) return null: no key is built
useLayerCellTypes(layer) ==
    IF layer < 0 \/ layer > MaxLayer
    THEN /\ previous' = request
         /\ request' = [kind |-> "celltypes", layer |-> layer, key |-> <<>>]
         /\ UNCHANGED <<dataVars, laterVars, pageVars>>
    ELSE Requests("celltypes", layer)

\* ---------------------------------------------------------------- FeaturePage joins
\* Features of the causal-patching file and targets of the perturbation file
\* (both describe layer 11); a page's feature may share its id with them.
CausalPool == { [i |-> 0, lb |-> "c0"], [i |-> 1, lb |-> "c1"] }
TargetPool ==
    { [gene |-> "g1", top |-> << [i |-> 0, es |-> 1, lb |-> "a"],
                                 [i |-> 1, es |-> 2, lb |-> "b"] >>],
      [gene |-> "g2", top |-> << [i |-> 1, es |-> 3, lb |-> "c"] >>] }
PageLayers == {0, 11, 17}
PageFeatures == {0, 1, 2}

\* null of a hook's data, of causalFeature, and of Array.prototype.find
NotLoaded == [loaded |-> FALSE, items |-> <<>>]
Loaded(items) == [loaded |-> TRUE, items |-> items]
NoCausalFeature == [i |-> 0 - 1, lb |-> "null"]

OnCausalLayerAlways(layer) == TRUE
\* the negation of `layer !== 11`
OnCausalLayer(layer) == layer = 11

\* items.find(x => x.i === idx) ?? none
Find(items, idx, none) ==
    IF \E j \in 1..Len(items) : items[j].i = idx
    THEN items[CHOOSE j \in 1..Len(items) :
                   /\ items[j].i = idx
                   /\ \A h \in 1..(j - 1) : items[h].i # idx]
    ELSE none

\* The body of the causalFeature memo.
CausalFeature(layer, idx, cd) ==
    IF ~OnCausalLayer(layer) \/ ~cd.loaded THEN NoCausalFeature
    ELSE Find(cd.items, idx, NoCausalFeature)

\* The body of the matchingPertTargets memo: the loop over pertData.targets.
RECURSIVE Matches(_, _)
Matches(targets, idx) ==
    IF targets = <<>> THEN <<>>
    ELSE LET t == Head(targets)
             hit == Find(t.top, idx, NoCausalFeature)
         IN  (IF hit # NoCausalFeature
              THEN << [target |-> t, es |-> hit.es, lb |-> hit.lb] >>
              ELSE <<>>) \o Matches(Tail(targets), idx)

MatchingPertTargets(layer, idx, pd) ==
    IF ~OnCausalLayer(layer) \/ ~pd.loaded THEN <<>>
    ELSE Matches(pd.items, idx)

\* A render of the feature page: both memos are evaluated.
RenderFeatureJoins(r, cd, pd) ==
    /\ route' = r
    /\ causalData' = cd
    /\ pertData' = pd
    /\ causalFeature' = CausalFeature(r.layer, r.idx, cd)
    /\ matchingPertTargets' = MatchingPertTargets(r.layer, r.idx, pd)
    /\ UNCHANGED notJoinVars

\* The URL changes to /feature/<layer>/<idx>.
NavigateFeature(layer, idx) ==
    /\ [layer |-> layer, idx |-> idx] # route
    /\ RenderFeatureJoins([layer |-> layer, idx |-> idx], causalData, pertData)

\* useCausalPatching settles with the file's features.
CausalDataArrives(items) ==
    /\ ~causalData.loaded
    /\ RenderFeatureJoins(route, Loaded(items), pertData)

\* usePerturbationResponse settles with the file's targets.
PertDataArrives(items) ==
    /\ ~pertData.loaded
    /\ RenderFeatureJoins(route, causalData, Loaded(items))

\* ---------------------------------------------------------------- search pages
\* String.prototype.toUpperCase
toUpperCaseChar(ch) ==
    CASE ch = "t" -> "T"
      [] ch = "p" -> "P"
      [] ch = "m" -> "M"
      [] ch = "x" -> "X"
      [] OTHER -> ch
toUpperCase(s) == [i \in 1..Len(s) |-> toUpperCaseChar(s[i])]

\* The UTF-16 code unit of a character.
CodeUnit(ch) ==
    CASE ch = " " -> 32 [] ch = "M" -> 77 [] ch = "P" -> 80 [] ch = "T" -> 84
      [] ch = "X" -> 88 [] ch = "m" -> 109 [] ch = "p" -> 112 [] ch = "t" -> 116
      [] ch = "x" -> 120

\* s sorts before t under the default comparison of Array.prototype.sort.
RECURSIVE StringLess(_, _)
StringLess(s, t) ==
    IF t = <<>> THEN FALSE
    ELSE IF s = <<>> THEN TRUE
    ELSE IF Head(s) # Head(t) THEN CodeUnit(Head(s)) < CodeUnit(Head(t))
    ELSE StringLess(Tail(s), Tail(t))

\* Object.keys(data).sort()
SortedKeys(keys) ==
    [p \in 1..Cardinality(keys) |->
        CHOOSE k \in keys : Cardinality({j \in keys : StringLess(j, k)}) = p - 1]

sliceAll(a, n) == a
\* a.slice(0, n)
slice(a, n) == IF Len(a) <= n THEN a ELSE SubSeq(a, 1, n)

\* The indexes a run may have loaded: a small one, and one with more keys
\* matching a one-letter query than the suggestion list takes.
SmallIndex == { <<"T", "P">>, <<"t", "p", "x">>, <<"M">> }
LargeIndex ==
    UNION {{k \in [1..n -> {"T", "t"}] : TRUE} : n \in 1..3} \cup {<<"M", "t">>}
Indexes == {SmallIndex, LargeIndex}

\* The texts a user types.
TypedQueries ==
    UNION {{q \in [1..n -> {"t", "T", "p", "M", "x"}] : TRUE} : n \in 0..MaxQuery}

NoSelection == [some |-> FALSE, term |-> <<>>]
Selection(term) == [some |-> TRUE, term |-> term]

\* GeneSearch folds with toUpperCase, OntologySearch with toLowerCase.
Fold(kind, s) == IF kind = "gene" THEN toUpperCase(s) ELSE toLowerCase(s)

\* The body of the suggestions memo (data is loaded: the page renders its
\* input only then).
Suggestions(kind, keys, q) ==
    IF q = <<>> THEN <<>>
    ELSE slice(SelectSeq(SortedKeys(keys),
                         LAMBDA g : includes(Fold(kind, g), Fold(kind, q))),
               MaxSuggestions)

\* {suggestions.length > 0 && !selectedGene && ( <ul> ... )}
DropdownShown == Len(suggestions) > 0 /\ ~selected.some

\* onChange of the input: setQuery(e.target.value); setSelectedGene(null)
OnChange(q) ==
    /\ q # query
    /\ query' = q
    /\ selected' = NoSelection
    /\ suggestions' = Suggestions(searchKind, index, q)
    /\ event' = "change"
    /\ UNCHANGED <<searchKind, index, notSearchVars>>

\* onClick of a suggestion: setSelectedGene(gene); setQuery(gene)
OnClick(g) ==
    /\ DropdownShown
    /\ \E i \in 1..Len(suggestions) : suggestions[i] = g
    /\ selected' = Selection(g)
    /\ query' = g
    /\ suggestions' = Suggestions(searchKind, index, g)
    /\ event' = "click"
    /\ UNCHANGED <<searchKind, index, notSearchVars>>

\* ---------------------------------------------------------------- CrossLayerFlow
\* const PAIR_KEYS
PAIR_KEYS == <<"L00_L05", "L05_L11", "L11_L17">>
PairKeys == {PAIR_KEYS[i] : i \in 1..Len(PAIR_KEYS)}

\* Dependency lists of a source feature a in the graph files explored: three
\* dependencies with equal PMI on the first and the third (none for every
\* fourth source), or a single dependency.
DepsOf(a, shape) ==
    IF shape = "three"
    THEN IF a % 4 = 0 THEN <<>>
         ELSE << [b |-> 1, pmi |-> (a * 7) % 5, lb |-> "x"],
                 [b |-> 2, pmi |-> (a * 3) % 5, lb |-> "y"],
                 [b |-> 3, pmi |-> (a * 7) % 5, lb |-> "z"] >>
    ELSE << [b |-> a, pmi |-> a % 3, lb |-> "w"] >>

\* A pair of the graph: present or not, and one entry per source feature.
MissingPair == [present |-> FALSE, deps |-> <<>>]
PairOf(n, shape) ==
    [present |-> TRUE, deps |-> [a \in 1..n |-> [a |-> a, deps |-> DepsOf(a, shape)]]]
PairSizes == {0, 2, MaxRows + 1, MaxRows + 10}
PairOptions ==
    {MissingPair} \cup {PairOf(n, shape) : n \in PairSizes, shape \in {"three", "one"}}

NoGraph == [loaded |-> FALSE, pairs |-> [pk \in PairKeys |-> MissingPair]]
Graphs == {[loaded |-> TRUE, pairs |-> g] : g \in [PairKeys -> PairOptions]}

betterOrEqual(d, best) == d.pmi >= best.pmi
\* d.pmi > best.pmi
better(d, best) == d.pmi > best.pmi

\* entry.deps.reduce((best, d) => (d.pmi > best.pmi ? d : best), entry.deps[0])
RECURSIVE reduce(_, _)
reduce(deps, best) ==
    IF deps = <<>> THEN best
    ELSE reduce(Tail(deps), IF better(Head(deps), best) THEN Head(deps) ELSE best)

\* for (const entry of pair.deps) { ... rows.push(...) }
RECURSIVE Rows(_)
Rows(entries) ==
    IF entries = <<>> THEN <<>>
    ELSE LET entry == Head(entries)
             topDep == reduce(entry.deps, entry.deps[1])
         IN  (IF Len(entry.deps) = 0 THEN <<>>
              ELSE << [a |-> entry.a, b |-> topDep.b, pmi |-> topDep.pmi,
                       lb |-> topDep.lb] >>) \o Rows(Tail(entries))

\* The body of the topDeps memo.
TopDeps(gd, pk) ==
    IF ~gd.loaded \/ ~gd.pairs[pk].present THEN <<>>
    ELSE LET rows == Rows(gd.pairs[pk].deps)
             R == {rows[i] : i \in 1..Len(rows)}
             byPmi == [x \in R, y \in R |-> y.pmi - x.pmi]
         IN  slice(sort(Array("fresh", rows), byPmi).elems, MaxRows)

\* useCrossLayerGraph settles with the graph file.
GraphArrives(g) ==
    /\ ~graphData.loaded
    /\ graphData' = g
    /\ topDeps' = TopDeps(g, selectedPair)
    /\ UNCHANGED <<selectedPair, notFlowVars>>

\* onClick of a pair button: setSelectedPair(pk)
SelectPair(pk) ==
    /\ graphData.loaded
    /\ pk # selectedPair
    /\ selectedPair' = pk
    /\ topDeps' = TopDeps(graphData, pk)
    /\ UNCHANGED <<graphData, notFlowVars>>

\* ---------------------------------------------------------------- App menu
\* The pathnames of the routes: the fixed pages and /layer/<n>.
Path(pg, n) == [page |-> pg, layer |-> n]
Pathnames ==
    {Path(pg, 0) : pg \in {"/", "/modules", "/flow", "/genes", "/pathways",
                           "/comparisons", "/about"}}
        \cup {Path("/layer", n) : n \in 0..MaxLayer}

RouteEffectNever(old, new) == FALSE
\* useEffect(..., [location.pathname]): the dependency changed
RouteEffectFires(old, new) == old # new

\* A navigation (a NavLink click, a layer button, the back button): the app
\* re-renders with the new location; the effect is scheduled if the pathname
\* differs from the one of the previous render.
Navigate(p) ==
    /\ ~effectPending
    /\ pathname' = p
    /\ IF RouteEffectFires(pathname, p)
       THEN effectPending' = TRUE /\ wasOpen' = menuOpen /\ toggled' = FALSE
       ELSE UNCHANGED <<effectPending, wasOpen, toggled>>
    /\ UNCHANGED <<menuOpen, notMenuVars>>

\* The route effect runs after the commit: setMenuOpen(false)
RouteEffect ==
    /\ effectPending
    /\ effectPending' = FALSE
    /\ menuOpen' = FALSE
    /\ UNCHANGED <<pathname, wasOpen, toggled, notMenuVars>>

\* onClick of the hamburger button: setMenuOpen(o => !o).  Effects of the
\* previous commit have run before a click is handled.
ToggleMenu ==
    /\ ~effectPending
    /\ menuOpen' = ~menuOpen
    /\ toggled' = TRUE
    /\ UNCHANGED <<pathname, effectPending, wasOpen, notMenuVars>>

\* ---------------------------------------------------------------- system
DataInit ==
    /\ cache = [x \in {} |-> Null]
    /\ calls = {}
    /\ mq = <<>>
    /\ alive = [v \in Views |-> "unborn"]
    /\ dep = [v \in Views |-> "K1"]
    /\ gen = [v \in Views |-> 0]
    /\ data = [v \in Views |-> Null]
    /\ loading = [v \in Views |-> TRUE]
    /\ error = [v \in Views |-> NoError]
    /\ mountedRef = [v \in Views |-> TRUE]
    /\ ncalls = 0
    /\ gets = [k \in Keys |-> 0]
    /\ sets = [k \in Keys |-> 0]
    /\ stored = {}
    /\ resolved = [k \in Keys |-> {}]
    /\ failed = {}
    /\ refetched = {}
    /\ uncaught = FALSE
    /\ writes = [v \in Views |-> 0]

\* No page has rendered and no dataset is held by a page.
PagesIdle ==
    /\ page = "none"
    /\ features = <<>>
    /\ geneSearch = <<>>
    /\ filteredFeatures = <<>>
    /\ modules = <<>>
    /\ layerFilter = AllLayers
    /\ sortBy = "layer"
    /\ filtered = <<>>
    /\ genes = <<>>
    /\ names = <<>>
    /\ annotations = <<>>
    /\ grouped = <<>>
    /\ request = NoRequest
    /\ previous = NoRequest

\* The feature page at /feature/0/0 with nothing loaded.
JoinIdle ==
    /\ route = [layer |-> 0, idx |-> 0]
    /\ causalData = NotLoaded
    /\ pertData = NotLoaded
    /\ causalFeature = NoCausalFeature
    /\ matchingPertTargets = <<>>

\* A search page with its index loaded and nothing typed.
SearchIdle ==
    /\ searchKind = "gene"
    /\ index = SmallIndex
    /\ query = <<>>
    /\ selected = NoSelection
    /\ suggestions = <<>>
    /\ event = "none"

\* The cross-layer flow page before its graph arrives.
FlowIdle ==
    /\ graphData = NoGraph
    /\ selectedPair = PAIR_KEYS[1]
    /\ topDeps = <<>>

\* The app mounted at "/": the menu is closed and the mount effect has run.
MenuIdle ==
    /\ menuOpen = FALSE
    /\ pathname = Path("/", 0)
    /\ effectPending = FALSE
    /\ wasOpen = FALSE
    /\ toggled = FALSE

LaterIdle ==
    /\ JoinIdle
    /\ SearchIdle
    /\ FlowIdle
    /\ MenuIdle

\* Every layer is one of 0..17; MaxCalls loader invocations are explored.
InRangeRun ==
    /\ outside = {}
    /\ budget = MaxCalls

\* Every hook instance is one of the plain hooks (useLayerFeatures, ...).
Init ==
    /\ DataInit
    /\ InRangeRun
    /\ optional = {}
    /\ PagesIdle
    /\ LaterIdle

\* Every hook instance is a useLayerCellTypes.
InitOptional ==
    /\ DataInit
    /\ InRangeRun
    /\ optional = Views
    /\ PagesIdle
    /\ LaterIdle

Next ==
    \/ \E v \in Views, k \in Keys : Mount(v, k)
    \/ \E v \in Views, k \in Keys : SetDep(v, k)
    \/ \E v \in Views : Unmount(v)
    \/ \E c \in calls, s \in Statuses : Respond(c, s)
    \/ \E c \in calls : NetworkFail(c)
    \/ \E c \in calls : ParseOk(c)
    \/ \E c \in calls : ParseFail(c)
    \/ Deliver

Spec == Init /\ [][Next]_vars

\* The data access layer with useLayerCellTypes subscriptions.
OptionalSpec == InitOptional /\ [][Next]_vars

\* The pages' derived computations over data that has been loaded: one of the
\* cached datasets is any array of the bound, the others are empty.
InitExplorer ==
    /\ DataInit
    /\ InRangeRun
    /\ optional = {}
    /\ page = "none"
    /\ geneSearch = <<>>
    /\ filteredFeatures = <<>>
    /\ layerFilter = AllLayers
    /\ sortBy = "layer"
    /\ filtered = <<>>
    /\ names = <<>>
    /\ grouped = <<>>
    /\ request = NoRequest
    /\ previous = NoRequest
    /\ LaterIdle
    /\ features \in Arrays(FeaturePool)
    /\ modules \in Arrays(ModulePool)
    /\ genes \in Arrays(GenePool)
    /\ annotations \in Arrays(AnnotationPool)
    /\ Cardinality({d \in {"features", "modules", "genes", "annotations"} :
            CASE d = "features" -> features # <<>>
              [] d = "modules" -> modules # <<>>
              [] d = "genes" -> genes # <<>>
              [] OTHER -> annotations # <<>>}) <= 1

NextExplorer ==
    \/ ShowLayerExplorer
    \/ \E q \in GeneSearches : SetGeneSearch(q)
    \/ ShowModuleExplorer
    \/ \E lf \in LayerFilters : SetLayerFilter(lf)
    \/ \E sb \in SortKeys : SetSortBy(sb)
    \/ ShowFeaturePage
    \/ TopGenesChart
    \/ AnnotationsSection

ExplorerSpec == InitExplorer /\ [][NextExplorer]_vars

\* The per-layer hooks called with any layer number, in any order.
InitKeys == Init

NextKeys ==
    \/ \E l \in Layers : useLayerFeatures(l)
    \/ \E l \in Layers : useLayerPositions(l)
    \/ \E l \in Layers : useLayerAnnotations(l)
    \/ \E l \in Layers : useLayerCellTypes(l)

KeySpec == InitKeys /\ [][NextKeys]_vars

\* The feature page's joins under navigation and data arrival.
NextJoin ==
    \/ \E l \in PageLayers, i \in PageFeatures : NavigateFeature(l, i)
    \/ \E items \in Arrays(CausalPool) : CausalDataArrives(items)
    \/ \E items \in Arrays(TargetPool) : PertDataArrives(items)

JoinSpec == Init /\ [][NextJoin]_vars

\* A step of the network: a pending request completes or fails.
NetworkStep ==
    \/ \E c \in calls, s \in Statuses : Respond(c, s)
    \/ \E c \in calls : NetworkFail(c)
    \/ \E c \in calls : ParseOk(c)
    \/ \E c \in calls : ParseFail(c)

\* The event loop runs every queued reaction job, and every request issued
\* eventually completes or fails.
LiveSpec == Spec /\ WF_vars(Deliver) /\ WF_vars(NetworkStep)

\* useLayerCellTypes subscriptions whose key K2 stands for a layer outside 0..17.
InitRange ==
    /\ DataInit
    /\ optional = Views
    /\ outside = {"K2"}
    /\ budget = MaxCalls
    /\ PagesIdle
    /\ LaterIdle

RangeSpec == InitRange /\ [][Next]_vars

\* The layer explorer: v1 is its useLayerFeatures and v2 its useLayerPositions,
\* both called with the layer of the URL (a key stands for the layer whose
\* table it names).  The two effects run in the same commit: between them no
\* response arrives.
FeaturesHook == "v1"
PositionsHook == "v2"
SameLayer == alive[FeaturesHook] = alive[PositionsHook] /\ dep[FeaturesHook] = dep[PositionsHook]

MountFeatures(k) == SameLayer /\ Mount(FeaturesHook, k)
MountPositions == ~SameLayer /\ Mount(PositionsHook, dep[FeaturesHook])
SwitchFeatures(k) == SameLayer /\ SetDep(FeaturesHook, k)
SwitchPositions == ~SameLayer /\ SetDep(PositionsHook, dep[FeaturesHook])

InitPlot ==
    /\ DataInit
    /\ optional = {}
    /\ outside = {}
    /\ budget = MaxCalls + 1
    /\ PagesIdle
    /\ LaterIdle

NextPlot ==
    \/ \E k \in Keys : MountFeatures(k)
    \/ MountPositions
    \/ \E k \in Keys : SwitchFeatures(k)
    \/ SwitchPositions
    \/ \E c \in calls, s \in Statuses : SameLayer /\ Respond(c, s)
    \/ \E c \in calls : SameLayer /\ NetworkFail(c)
    \/ \E c \in calls : SameLayer /\ ParseOk(c)
    \/ \E c \in calls : SameLayer /\ ParseFail(c)
    \/ Deliver

PlotSpec == InitPlot /\ [][NextPlot]_vars

\* Either search page over either index, nothing typed yet.
InitSearch ==
    /\ DataInit
    /\ InRangeRun
    /\ optional = {}
    /\ PagesIdle
    /\ JoinIdle
    /\ FlowIdle
    /\ MenuIdle
    /\ searchKind \in {"gene", "ontology"}
    /\ index \in Indexes
    /\ query = <<>>
    /\ selected = NoSelection
    /\ suggestions = <<>>
    /\ event = "none"

NextSearch ==
    \/ \E q \in TypedQueries : OnChange(q)
    \/ \E g \in index : OnClick(g)

SearchSpec == InitSearch /\ [][NextSearch]_vars

\* The cross-layer flow page: the graph arrives, pairs are selected.
NextFlow ==
    \/ \E g \in Graphs : GraphArrives(g)
    \/ \E pk \in PairKeys : SelectPair(pk)

FlowSpec == Init /\ [][NextFlow]_vars

\* The app shell: navigations and menu toggles.
NextMenu ==
    \/ \E p \in Pathnames : Navigate(p)
    \/ RouteEffect
    \/ ToggleMenu

MenuSpec == Init /\ [][NextMenu]_vars

\* ================================================================ properties
\* The hook state a consumer of view v reads.
HookState(v) == <<data[v], loading[v], error[v]>>

\* A reaction job is about to run for a call that is not the one the latest
\* effect run of its (mounted) view started.
StaleReaction ==
    /\ mq # <<>>
    /\ alive[Head(mq).view] = "mounted"
    /\ Head(mq).gen # gen[Head(mq).view]

\* C1: when the dependency key of a mounted subscription has changed while a
\* load was pending, the completion of that superseded load (success or
\* failure) writes nothing into the hook state.
C1_StaleCompletionDiscarded ==
    [][\A v \in Views :
          (StaleReaction /\ Head(mq).view = v) => HookState(v)' = HookState(v)]_vars

\* C2: once a view is unmounted, no later step (in particular no late
\* completion of its pending load) calls a setter or changes its hook state,
\* and no rejection goes unhandled.
C2_TeardownSafety ==
    [][/\ \A v \in Views : alive[v] = "unmounted" =>
              /\ HookState(v)' = HookState(v)
              /\ writes'[v] = writes[v]
       /\ ~uncaught']_vars

\* C2 witness: every load of an unmounted view has completed, and none of the
\* completions called a setter (they all arrived after the unmount).
C2_Witness ==
    \E v \in Views :
        /\ alive[v] = "unmounted"
        /\ gen[v] >= 1
        /\ writes[v] = 0
        /\ mq = <<>>
        /\ \A c \in calls : c.view # v

\* C3 (as stated): at most one HTTP GET is ever issued per key.
C3_AtMostOneGet == \A k \in Keys : gets[k] <= 1

\* C3 (amended): no HTTP GET is issued for a key that is in the cache; every
\* request for a key is issued while the key is absent from the cache.
C3_NoGetOnceCached ==
    [][\A k \in Keys : k \in DOMAIN cache => gets'[k] = gets[k]]_vars

\* C3 witness: a key was fetched once and stored, and a later call for it was
\* made by another view; both views hold its value.
C3_Witness ==
    \E k \in Keys : \E v, w \in Views :
        /\ v # w
        /\ gets[k] = 1 /\ sets[k] = 1
        /\ dep[v] = k /\ dep[w] = k
        /\ gen[v] = 1 /\ gen[w] = 1
        /\ ~loading[v] /\ ~loading[w]
        /\ data[v] = cache[k] /\ data[w] = cache[k]

\* C4: a call made for a key present in the cache resolves at once to the
\* cached value and issues no network request; a key a successful fetch has
\* stored stays in the cache, so every later call for it takes this path.
C4_CacheHitPath ==
    [][/\ \A v \in Views :
          (gen'[v] # gen[v] /\ dep'[v] \in DOMAIN cache) =>
              /\ gets' = gets
              /\ calls' = calls
              /\ Len(mq') = 1
              /\ mq'[1].view = v /\ mq'[1].key = dep'[v]
              /\ mq'[1].phase = "resolved"
              /\ mq'[1].val = cache[dep'[v]]
       /\ \A k \in Keys : sets[k] >= 1 => (k \in DOMAIN cache /\ k \in DOMAIN cache')]_vars

\* C4 witness: a call served from the cache is about to be delivered.
C4_Witness ==
    /\ mq # <<>>
    /\ Head(mq).hit
    /\ Head(mq).val = cache[Head(mq).key]

\* C5: a key once stored is never removed and its value never overwritten; the
\* cache is set at most once per key.
C5_AppendOnly ==
    [][\A k \in Keys :
          /\ k \in DOMAIN cache => (k \in DOMAIN cache' /\ cache'[k] = cache[k])
          /\ sets'[k] <= 1]_vars

\* Deep equality of two parsed values: same content (the object identity, ref,
\* may differ).
DeepEqual(a, b) == a.key = b.key

\* C6: all successful fetchJson calls for a key resolve to the same parsed
\* value (deep-equal), the value the cache holds for that key; the data a view
\* shows is one of those values.
C6_SameValue ==
    /\ \A k \in Keys : \A x \in resolved[k] :
          /\ k \in DOMAIN cache
          /\ DeepEqual(x, cache[k])
          /\ x.key = k
          /\ \A y \in resolved[k] : DeepEqual(x, y)
    /\ \A v \in Views : data[v] # Null => \E k \in Keys : data[v] \in resolved[k]

\* C6 witness: two views loaded the same dataset and both show its value.
C6_Witness ==
    \E v, w \in Views :
        /\ v # w
        /\ dep[v] = dep[w]
        /\ gen[v] = 1 /\ gen[w] = 1
        /\ ~loading[v] /\ ~loading[w]
        /\ data[v] # Null /\ data[w] # Null
        /\ gets[dep[v]] = 2

\* A step in which a fetchJson call rejects.
FailureStep == mq = <<>> /\ mq' # <<>> /\ mq'[1].phase = "rejected"

\* C7: a key is in the cache only if a fetch for it got a success status and
\* its body parsed; a failing fetch leaves the cache unchanged; a call made
\* for a key that is not cached issues a new request.
C7_FailureNotCached ==
    [][/\ \A k \in DOMAIN cache' :
              \E r \in stored' : r.key = k /\ r.status >= 200 /\ r.status <= 299
       /\ \A r \in stored' : r.status >= 200 /\ r.status <= 299
       /\ FailureStep => cache' = cache
       /\ \A v \in Views :
              (gen'[v] # gen[v] /\ dep'[v] \notin DOMAIN cache) =>
                  /\ gets'[dep'[v]] = gets[dep'[v]] + 1
                  /\ \E c \in calls' \ calls :
                        c.view = v /\ c.key = dep'[v] /\ c.phase = "fetching"]_vars

\* C7 witness: a fetch of a key failed, the key is not cached, and a later
\* call for the same key has a new request in flight.
C7_Witness ==
    \E c \in calls :
        /\ c.phase = "fetching"
        /\ c.key \in refetched
        /\ c.key \notin DOMAIN cache
        /\ gets[c.key] >= 2

\* C8: in a settled state (loading false) of a mounted subscription exactly
\* one of data and error is non-null.
C8_SettledShape ==
    \A v \in Views :
        (alive[v] = "mounted" /\ ~loading[v]) =>
            ((data[v] # Null) # (error[v] # NoError))

\* C9: in a pending state (loading true) of a mounted subscription both data
\* and error are null.
C9_PendingShape ==
    \A v \in Views :
        (alive[v] = "mounted" /\ loading[v]) =>
            (data[v] = Null /\ error[v] = NoError)

\* A step in which the load of view v fails: its call rejects, or the
\* rejection is delivered to the view.
FailingView(v) ==
    \/ FailureStep /\ mq'[1].view = v
    \/ mq # <<>> /\ Head(mq).phase = "rejected" /\ Head(mq).view = v

\* C10: a failure of one view's request changes neither the hook state of any
\* other view nor the cache, and leaves every other pending request in flight.
C10_ErrorIsolation ==
    [][\A v \in Views : FailingView(v) =>
          /\ \A w \in Views \ {v} : HookState(w)' = HookState(w)
          /\ cache' = cache
          /\ \A c \in calls : c.view # v => c \in calls']_vars

\* C10 witness: the request of one view has just failed while another view's
\* request for a different key is pending.
C10_Witness ==
    /\ mq # <<>>
    /\ Head(mq).phase = "rejected"
    /\ \E c \in calls :
          /\ c.view # Head(mq).view
          /\ c.key # Head(mq).key
          /\ alive[c.view] = "mounted"
          /\ loading[c.view]
          /\ c.gen = gen[c.view]

\* C11: when the fetch of a useLayerCellTypes subscription fails (bad status,
\* network failure or parse failure) the subscription settles with data null,
\* error null and loading false; such a subscription never holds an error.
C11_OptionalAbsence ==
    [][\A v \in optional :
          /\ error'[v] = NoError
          /\ (mq # <<>> /\ Head(mq).view = v /\ Head(mq).err # NoError /\ mountedRef[v]) =>
                 (data'[v] = Null /\ error'[v] = NoError /\ ~loading'[v])]_vars

\* C11 witness: the only fetch of a mounted useLayerCellTypes subscription
\* failed and the subscription has settled with no data and no error.
C11_Witness ==
    \E v \in optional :
        /\ alive[v] = "mounted"
        /\ gen[v] = 1 /\ writes[v] = 1
        /\ dep[v] \in failed /\ gets[dep[v]] = 1
        /\ ~loading[v] /\ data[v] = Null /\ error[v] = NoError

\* C12: the error a view shows after a bad status or a network failure carries
\* the dataset key and the status.
C12_ErrorCarriesKeyAndStatus ==
    \A v \in Views :
        error[v].kind \in {"status", "network"} =>
            (error[v].key \in Keys /\ error[v].status \in Statuses)

\* C13: a mounted subscription in the error state whose dependency key does
\* not change keeps its state and starts no further request.
C13_ErrorIsTerminal ==
    [][\A v \in Views :
          (/\ alive[v] = "mounted" /\ alive'[v] = "mounted"
           /\ ~loading[v] /\ error[v] # NoError
           /\ dep'[v] = dep[v] /\ gen'[v] = gen[v]) =>
              /\ HookState(v)' = HookState(v)
              /\ \A c \in calls' \ calls : c.view = v => c.phase # "fetching"]_vars

\* C14: unmounting a view or changing its dependency key leaves its requests
\* in flight, and a request that then succeeds stores its parsed value in the
\* cache whatever became of its view.
C14_SoftCancellation ==
    [][\A c \in calls :
          /\ (alive'[c.view] # alive[c.view] \/ gen'[c.view] # gen[c.view]) => c \in calls'
          /\ (c.phase = "parsing" /\ c \notin calls' /\ sets'[c.key] # sets[c.key]) =>
                 /\ c.key \in DOMAIN cache'
                 /\ cache'[c.key] # Null
                 /\ cache'[c.key] = mq'[1].val]_vars

\* C14 witness: a view unmounted before its only request completed; the
\* request succeeded afterwards and another view got the value from the cache
\* without a second request.
C14_Witness ==
    \E v, w \in Views :
        /\ v # w
        /\ alive[v] = "unmounted" /\ gen[v] = 1 /\ writes[v] = 0
        /\ gets[dep[v]] = 1 /\ sets[dep[v]] = 1
        /\ alive[w] = "mounted" /\ gen[w] = 1 /\ dep[w] = dep[v]
        /\ ~loading[w] /\ data[w] = cache[dep[v]]

\* The invocations a step starts.
Started == (calls' \ calls) \cup (IF Len(mq') > Len(mq) THEN {mq'[Len(mq')]} ELSE {})

\* C15: on first use and on every change of the dependency key the hook turns
\* pending (loading true, error null) and invokes the loader exactly once, the
\* completion being a later step; the completion of that load turns loading
\* off and sets data (success) or error (failure).
C15_Lifecycle ==
    [][\A v \in Views :
          /\ (dep'[v] # dep[v] \/ alive'[v] # alive[v]) /\ alive'[v] = "mounted" =>
                 gen'[v] = gen[v] + 1
          /\ gen'[v] # gen[v] =>
                 /\ gen'[v] = gen[v] + 1
                 /\ loading'[v] /\ error'[v] = NoError
                 /\ ncalls' = ncalls + 1
                 /\ \E c \in Started :
                       c.view = v /\ c.gen = gen'[v] /\ c.key = dep'[v] /\ c.phase # "rejected"
          /\ (mq # <<>> /\ Head(mq).view = v /\ Head(mq).gen = gen[v]
                /\ alive[v] = "mounted") =>
                 /\ ~loading'[v]
                 /\ Head(mq).phase = "resolved" => data'[v] = Head(mq).val
                 /\ Head(mq).phase = "rejected" => error'[v] = Head(mq).err]_vars

\* C15 witness: a mounted view whose dependency changed once; both of its
\* loads completed in turn and it shows the data of its current key.
C15_Witness ==
    \E v \in Views :
        /\ alive[v] = "mounted"
        /\ gen[v] = 2 /\ writes[v] = 2
        /\ ~loading[v] /\ error[v] = NoError
        /\ data[v] # Null /\ data[v].key = dep[v]

\* C16: a completion reaches the setters of a view only while the view is
\* mounted and pending, so each pending period gets one completion.
C16_ExactlyOnce ==
    [][\A v \in Views :
          writes'[v] # writes[v] =>
              (alive[v] = "mounted" /\ loading[v] /\ writes'[v] = writes[v] + 1)]_vars

\* C19: when an invocation stores a key, the key is still absent as the
\* invocation found it: no other invocation wrote the entry in between.
C19_AtomicCheckThenStore ==
    [][\A k \in Keys : sets'[k] # sets[k] => k \notin DOMAIN cache]_vars

\* ---------------------------------------------------------------- C17
\* Two characters that are the same letter, whatever their case.
SameLetter(a, b) == a = b \/ {a, b} \in {{"T", "t"}, {"P", "p"}, {"M", "m"}}

\* The filter string without the blanks around it.
Needle(s) ==
    IF \A i \in 1..Len(s) : s[i] = " " THEN <<>>
    ELSE LET first == CHOOSE i \in 1..Len(s) :
                          s[i] # " " /\ \A j \in 1..(i - 1) : s[j] = " "
             last == CHOOSE i \in 1..Len(s) :
                          s[i] # " " /\ \A j \in (i + 1)..Len(s) : s[j] = " "
         IN  SubSeq(s, first, last)

\* Gene name nm contains t, case ignored.
NameMatches(nm, t) ==
    \E i \in 1..(Len(nm) - Len(t) + 1) :
        \A j \in 1..Len(t) : SameLetter(nm[i + j - 1], t[j])

\* The positions of the features the filter keeps.
Kept(feats, search) ==
    {i \in 1..Len(feats) :
        \/ Needle(search) = <<>>
        \/ \E g \in 1..Len(feats[i].tg) : NameMatches(feats[i].tg[g].n, Needle(search))}

PositionIn(feats, f) == CHOOSE i \in 1..Len(feats) : feats[i] = f

\* C17: the layer explorer's filtered result holds exactly the features with a
\* top gene that matches the gene filter (blanks around it dropped, case
\* ignored), every feature when the filter is empty or blank, in descending
\* annotation count, ties in the order of the features array.
C17_GeneFilter ==
    page = "layer" =>
        /\ Len(filteredFeatures) = Cardinality(Kept(features, geneSearch))
        /\ {filteredFeatures[j] : j \in 1..Len(filteredFeatures)}
               = {features[i] : i \in Kept(features, geneSearch)}
        /\ \A j, k \in 1..Len(filteredFeatures) :
               j < k =>
                 \/ filteredFeatures[j].na > filteredFeatures[k].na
                 \/ /\ filteredFeatures[j].na = filteredFeatures[k].na
                    /\ PositionIn(features, filteredFeatures[j])
                         < PositionIn(features, filteredFeatures[k])

\* A mixed-case, blank-padded filter kept some features and dropped others,
\* and two of the kept share their annotation count.
C17_Witness ==
    /\ page = "layer"
    /\ geneSearch = <<" ", "t", "P", " ">>
    /\ Len(filteredFeatures) < Len(features)
    /\ \E j, k \in 1..Len(filteredFeatures) :
           j < k /\ filteredFeatures[j].na = filteredFeatures[k].na

\* ---------------------------------------------------------------- C20
\* C20: no derived computation of a page changes the cached array it reads:
\* every step leaves the elements of the cached features, modules, genes and
\* annotations arrays, and their order, as they were.
C20_CacheNotMutated ==
    [][/\ features' = features
       /\ modules' = modules
       /\ genes' = genes
       /\ annotations' = annotations]_vars

\* With no filter, a page shows all elements of its cached array in an order
\* that differs from the cached one.
C20_Witness ==
    \/ /\ page = "layer"
       /\ geneSearch = <<>>
       /\ Len(filteredFeatures) = Len(features)
       /\ filteredFeatures # features
    \/ /\ page = "modules"
       /\ layerFilter.all
       /\ Len(filtered) = Len(modules)
       /\ filtered # modules

\* ---------------------------------------------------------------- C18
\* The value of a decimal digit character (10 for any other character).
DigitValue(ch) ==
    CASE ch = "0" -> 0 [] ch = "1" -> 1 [] ch = "2" -> 2 [] ch = "3" -> 3
      [] ch = "4" -> 4 [] ch = "5" -> 5 [] ch = "6" -> 6 [] ch = "7" -> 7
      [] ch = "8" -> 8 [] ch = "9" -> 9 [] OTHER -> 10

\* A hook call for one of the atlas layers 0..17.
InRange(r) == r.kind # "none" /\ r.layer >= 0 /\ r.layer <= 17

\* C18: for the layers 0..17 a per-layer hook's key is "layer_", then exactly
\* two digits that read as the layer number, then "_" and the dataset's name;
\* calls with the same layer and kind use the same key, and calls that use the
\* same key have the same layer and the same kind.
C18_KeysDeterministicAndDistinct ==
    /\ \A r \in {request, previous} :
          InRange(r) =>
              /\ Len(r.key) > 9
              /\ SubSeq(r.key, 1, 6) = <<"l", "a", "y", "e", "r", "_">>
              /\ DigitValue(r.key[7]) < 10
              /\ DigitValue(r.key[8]) < 10
              /\ 10 * DigitValue(r.key[7]) + DigitValue(r.key[8]) = r.layer
              /\ r.key[9] = "_"
              /\ r.key[10] = CASE r.kind = "features" -> "f"
                               [] r.kind = "positions" -> "p"
                               [] r.kind = "annotations" -> "a"
                               [] OTHER -> "c"
    /\ (InRange(request) /\ InRange(previous)) =>
          /\ (request.kind = previous.kind /\ request.layer = previous.layer)
                => request.key = previous.key
          /\ request.key = previous.key
                => (request.kind = previous.kind /\ request.layer = previous.layer)

\* Two calls for the same one-digit layer and different datasets, and so with
\* different keys.
C18_Witness ==
    /\ request.kind = "celltypes"
    /\ previous.kind = "features"
    /\ request.layer = 7
    /\ previous.layer = 7
    /\ request.key # previous.key

\* ---------------------------------------------------------------- C21
\* C21: the feature page shows a causal-patching record or a perturbation
\* match only when its layer is 11.
C21_JoinOnlyOnLayer11 ==
    (causalFeature.i >= 0 \/ Len(matchingPertTargets) > 0) => route.layer = 11

\* On layer 11 both joins found records for the page's feature id.
C21_Witness ==
    /\ route.layer = 11
    /\ causalFeature.i = route.idx
    /\ Len(matchingPertTargets) = 2

\* ---------------------------------------------------------------- C22
\* C22: the loading flag of a subscription turns false only by the completion
\* of the load started for its current dependency key; the completion of a
\* load started for an earlier key never turns it false.
C22_LoadingTracksDependency ==
    [][\A v \in Views :
          (loading[v] /\ ~loading'[v]) =>
              /\ mq # <<>>
              /\ Head(mq).view = v
              /\ Head(mq).gen = gen[v]]_vars

\* ---------------------------------------------------------------- C23
\* plotData is non-null: `if (!features || !positions) return null` passed.
PlotDataBuilt == data[FeaturesHook] # Null /\ data[PositionsHook] # Null

\* C23: whenever the layer explorer has a plot, the feature table and the
\* position table it joins are those of the layer selected in the URL.
C23_PlotLayerConsistent ==
    (alive[FeaturesHook] = "mounted" /\ alive[PositionsHook] = "mounted"
       /\ dep[FeaturesHook] = dep[PositionsHook] /\ PlotDataBuilt) =>
        /\ data[FeaturesHook].key = dep[FeaturesHook]
        /\ data[PositionsHook].key = dep[PositionsHook]

C25_OutOfRangeLayer ==
    [][\A v \in optional :
          /\ (gen'[v] # gen[v] /\ dep'[v] \in outside) =>
                 /\ gets' = gets
                 /\ calls' = calls
                 /\ cache' = cache
          /\ (mq # <<>> /\ Head(mq).view = v /\ Head(mq).gen = gen[v]
                /\ dep[v] \in outside /\ alive[v] = "mounted") =>
                 /\ cache' = cache
                 /\ ~loading'[v]
                 /\ data'[v] = Null
                 /\ error'[v] = NoError]_vars

\* A mounted useLayerCellTypes subscription whose only load was for an
\* out-of-range layer: it has settled empty and nothing was requested.
C25_Witness ==
    \E v \in optional :
        /\ alive[v] = "mounted"
        /\ dep[v] \in outside
        /\ gen[v] = 1 /\ writes[v] = 1
        /\ ~loading[v] /\ data[v] = Null /\ error[v] = NoError
        /\ \A k \in Keys : gets[k] = 0

\* ---------------------------------------------------------------- C26
\* Term g contains text q, case ignored.
ContainsIgnoringCase(g, q) ==
    \E i \in 1..(Len(g) - Len(q) + 1) :
        \A j \in 1..Len(q) :
            \/ g[i + j - 1] = q[j]
            \/ {g[i + j - 1], q[j]} \in {{"T", "t"}, {"P", "p"}, {"M", "m"}, {"X", "x"}}

\* C26: on a search page a selected term is the query text and a key of the
\* loaded index; an edit of the query leaves no selection; the suggestion list
\* has at most 10 entries, each a key containing the query with case ignored;
\* and the list is shown only while nothing is selected.
C26_SearchSelection ==
    /\ selected.some => (query = selected.term /\ selected.term \in index)
    /\ event = "change" => ~selected.some
    /\ Len(suggestions) <= 10
    /\ \A i \in 1..Len(suggestions) :
          /\ suggestions[i] \in index
          /\ query # <<>>
          /\ ContainsIgnoringCase(suggestions[i], query)
    /\ DropdownShown => ~selected.some

\* A term was picked from a full list of ten suggestions, and the list
\* computed for the picked term is not shown.
C26_Witness ==
    /\ event = "click"
    /\ selected.some
    /\ index = LargeIndex
    /\ Len(suggestions) > 1
    /\ ~DropdownShown

\* ---------------------------------------------------------------- C27
\* The positions of the modules the layer filter keeps.
KeptModules ==
    {i \in 1..Len(modules) : layerFilter.all \/ modules[i].layer = layerFilter.layer}

\* C27: the module explorer lists exactly the modules of the filtered layer
\* (all modules under 'all'), by ascending layer then ascending module id
\* when sorting by layer, and by descending feature count when sorting by size.
C27_ModuleList ==
    page = "modules" =>
        /\ Len(filtered) = Cardinality(KeptModules)
        /\ {filtered[j] : j \in 1..Len(filtered)} = {modules[i] : i \in KeptModules}
        /\ \A j, k \in 1..Len(filtered) :
              j < k =>
                IF sortBy = "size"
                THEN filtered[j].n >= filtered[k].n
                ELSE \/ filtered[j].layer < filtered[k].layer
                     \/ /\ filtered[j].layer = filtered[k].layer
                        /\ filtered[j].id <= filtered[k].id

\* Sorted by layer under a layer filter that dropped a module: two modules of
\* the kept layer are listed by id, against their order in the catalog.
C27_Witness ==
    /\ page = "modules"
    /\ sortBy = "layer"
    /\ ~layerFilter.all
    /\ Len(filtered) = 2
    /\ Len(modules) = 3
    /\ PositionIn(modules, filtered[1]) > PositionIn(modules, filtered[2])

\* ---------------------------------------------------------------- C28
\* The entries of the selected pair, none when the pair is missing.
PairEntries ==
    IF graphData.loaded /\ graphData.pairs[selectedPair].present
    THEN graphData.pairs[selectedPair].deps
    ELSE <<>>

\* The positions of the sources with a non-empty dependency list.
Sources == {i \in 1..Len(PairEntries) : Len(PairEntries[i].deps) > 0}

MaxPmi(entry) ==
    CHOOSE m \in {entry.deps[j].pmi : j \in 1..Len(entry.deps)} :
        \A j \in 1..Len(entry.deps) : entry.deps[j].pmi <= m

FirstMax(entry) ==
    entry.deps[CHOOSE j \in 1..Len(entry.deps) :
                   /\ entry.deps[j].pmi = MaxPmi(entry)
                   /\ \A h \in 1..(j - 1) : entry.deps[h].pmi < MaxPmi(entry)]

Listed(i) == \E r \in 1..Len(topDeps) : topDeps[r].a = PairEntries[i].a

\* C28: the top-dependencies table has at most 20 rows, one per source with
\* dependencies at most, each with the source's first maximum-PMI dependency,
\* in descending PMI order; no source left out has a maximum PMI above a
\* listed row; and the table is empty when the selected pair is missing.
C28_TopDependencies ==
    /\ Len(topDeps) <= 20
    /\ \A r \in 1..Len(topDeps) :
          \E i \in Sources :
              /\ PairEntries[i].a = topDeps[r].a
              /\ topDeps[r].pmi = MaxPmi(PairEntries[i])
              /\ topDeps[r].b = FirstMax(PairEntries[i]).b
    /\ \A r, q \in 1..Len(topDeps) :
          r < q => (topDeps[r].a # topDeps[q].a /\ topDeps[r].pmi >= topDeps[q].pmi)
    /\ \A i \in Sources :
          ~Listed(i) => \A r \in 1..Len(topDeps) : MaxPmi(PairEntries[i]) <= topDeps[r].pmi
    /\ PairEntries = <<>> => topDeps = <<>>

\* A pair with more than 20 sources: the table is full, a source was left
\* out, and a listed source has two dependencies of maximum PMI.
C28_Witness ==
    /\ Len(topDeps) = 20
    /\ \E i \in Sources : ~Listed(i)
    /\ \E i \in Sources :
          /\ Listed(i)
          /\ Cardinality({j \in 1..Len(PairEntries[i].deps) :
                             PairEntries[i].deps[j].pmi = MaxPmi(PairEntries[i])}) = 2

\* ---------------------------------------------------------------- C29
\* C29: every change of the pathname schedules the route effect, the next
\* step is that effect and it leaves the menu closed, and afterwards the menu
\* opens only by a toggle: once the effect has run the menu is closed as long
\* as no toggle followed.
C29_MenuClosesOnRouteChange ==
    /\ []((~effectPending /\ ~toggled) => ~menuOpen)
    /\ [][/\ pathname' # pathname => effectPending'
          /\ effectPending =>
                 (~effectPending' /\ ~menuOpen' /\ pathname' = pathname)
          /\ (~menuOpen /\ menuOpen') =>
                 (~effectPending /\ toggled' /\ pathname' = pathname)]_vars

\* The menu was open when the pathname changed; the route effect has run,
\* no toggle followed, and the menu is closed.
C29_Witness ==
    /\ wasOpen
    /\ ~effectPending
    /\ ~toggled
    /\ ~menuOpen

====
